---- MODULE Spec2Model ----
(***************************************************************************)
(* A model of refplatinator.py: the extraction of disk images from         *)
(* ISO9660 volumes (extract_images_from_refplats, extract_from_zip,        *)
(* extract_from_iso, extract_vswitch_xml) and the platform matching and    *)
(* staging of build_vrnetlab_images.                                       *)
(*                                                                         *)
(* Strings are sequences of symbols.  A symbol is a run of characters that *)
(* the program's regular expressions, replace(), lower() and upper() treat *)
(* as a unit: a literal prefix of a pattern ("asav"), a run of digits      *)
(* ("23"), a separator ("_"), an extension (".qcow2"), the ISO version     *)
(* suffix (";1").                                                          *)
(***************************************************************************)
EXTENDS Integers, Sequences, FiniteSets, TLC

(***************************************************************************)
(* Bounds of the model.                                                    *)
(***************************************************************************)
\* longest fallback version string, in symbols
MaxVer == 3

\* most files one walk of a volume yields
MaxWalk == 2

\* greatest data_length of a directory entry
MaxLen == 2

\* most files build_vrnetlab_images finds in the extracted directories
MaxImages == 2

\* most files in the source directory
MaxBatch == 2

\* most .iso files in one .zip archive
MaxZipIsos == 2

\* the runs of extract_from_iso that may be in progress together
MaxRuns == 2

(***************************************************************************)
(* Strings.                                                                *)
(***************************************************************************)
None == <<>>

Some(x) == <<x>>

\* the symbols str.lower() changes
LowerTable ==
    ("ASAV" :> "asav") @@ ("Asav" :> "asav") @@ ("CISCO_VISE" :> "cisco_vise")
    @@ (".QCOW2" :> ".qcow2") @@ (".Qcow2" :> ".qcow2") @@ ("01A" :> "01a")

LowerSym(s) == IF s \in DOMAIN LowerTable THEN LowerTable[s] ELSE s

\* the symbols str.upper() changes
UpperTable ==
    ("asav" :> "ASAV") @@ ("Asav" :> "ASAV") @@ ("cisco_vise" :> "CISCO_VISE")
    @@ (".qcow2" :> ".QCOW2") @@ (".Qcow2" :> ".QCOW2") @@ (".img" :> ".IMG")
    @@ (".iol" :> ".IOL") @@ (".qco" :> ".QCO") @@ ("cat9kv" :> "CAT9KV")
    @@ ("notes" :> "NOTES") @@ ("c8000v_universalk9" :> "C8000V_UNIVERSALK9")
    @@ ("_x" :> "_X") @@ ("01a" :> "01A")

UpperSym(s) == IF s \in DOMAIN UpperTable THEN UpperTable[s] ELSE s

\* str.lower()
Lower(str) == [i \in DOMAIN str |-> LowerSym(str[i])]

\* str.upper()
Upper(str) == [i \in DOMAIN str |-> UpperSym(str[i])]

NotVersionSuffix(s) == s # ";1"

\* str.replace(';1', '')
StripVersionSuffix(str) == SelectSeq(str, NotVersionSuffix)

\* sub in str, for a one-symbol sub
Contains(str, sub) == \E i \in DOMAIN str : str[i] = sub

\* str.replace('_', '.')
UnderscoresToDots(str) == [i \in DOMAIN str |-> IF str[i] = "_" THEN "." ELSE str[i]]

\* the runs of digits of the model, the strings \d+ matches
DigitRuns == {"9", "23", "1"}

(***************************************************************************)
(* PLATFORM_PATTERNS.  A pattern ^prefix.*\.ext$ is [prefix, "any", ext];  *)
(* a pattern ^prefix(\d+)_(\d+)_(\d+)\.ext$ is [prefix, "d_d_d", ext].     *)
(* A rename_format is the sequence of its literal pieces and placeholders. *)
(***************************************************************************)
Pat(prefix, mid, ext) == [prefix |-> prefix, mid |-> mid, ext |-> ext]

Entry(pattern, platform, rename_format, version_extract, version_transform) ==
    [pattern |-> pattern, platform |-> platform, rename_format |-> rename_format,
     version_extract |-> version_extract, version_transform |-> version_transform]

PLATFORM_PATTERNS == <<
    Entry(Pat("asav", "d_d_d", ".qcow2"), "asav",
          <<"asav", "{major}", "-", "{minor}", "-", "{patch}", ".qcow2">>, TRUE, "none"),
    Entry(Pat("cat9kv", "any", ".qcow2"), "cat9kv",
          <<"cat9kv_prd-", "{version}", ".qcow2">>, FALSE, "none"),
    Entry(Pat("nexus9300v", "any", ".qcow2"), "n9kv",
          <<"n9kv-", "{version}", ".qcow2">>, FALSE, "none"),
    Entry(Pat("xrv9k_fullk9_x_", "d_d_d", ".qcow2"), "xrv9k",
          <<"xrv9k-fullk9-x-", "{major}", ".", "{minor}", ".", "{patch}", ".qcow2">>,
          TRUE, "none"),
    Entry(Pat("csr1000v", "any", ".qcow2"), "csr1000v",
          <<"csr1000v-universalk9.", "{version}", "-serial.qcow2">>, FALSE, "none"),
    Entry(Pat("c8000v_universalk9", "any", ".qco"), "c8000v",
          <<"c8000v-", "{version}", ".qcow2">>, FALSE, "dots_lower"),
    Entry(Pat("x86_64_crb_linux_adventerpr", "any", ".iol"), "iol",
          <<"cisco_iol-", "{version}", ".bin">>, FALSE, "none"),
    Entry(Pat("x86_64_crb_linux_l2", "any", ".iol"), "iol",
          <<"cisco_iol-L2-", "{version}", ".bin">>, FALSE, "none"),
    Entry(Pat("cisco_vise", "any", ".qcow2"), "ise",
          <<"cisco-ise-", "{version}", ".qcow2">>, FALSE, "none"),
    Entry(Pat("vios_adventerprisek9_m_spa", "any", ".qco"), "vios",
          <<"cisco_vios-", "{version}", ".qcow2">>, FALSE, "none"),
    Entry(Pat("vios_l2_adventerprisek9_m_s", "any", ".qco"), "viosl2",
          <<"cisco_viosl2-", "{version}", ".qcow2">>, FALSE, "none"),
    Entry(Pat("cisco_vise", "any", ".qcow2"), "generic_vm",
          <<"cisco_ise-", "{version}", ".qcow2">>, FALSE, "none"),
    Entry(Pat("cisco_secure_firewall_threa", "any", ".qco"), "ftdv",
          <<"Cisco_Secure_Firewall_Threat_Defense_Virtual-", "{version}", "-1.qcow2">>,
          FALSE, "dots"),
    Entry(Pat("cisco_secure_fw_mgmt_center", "any", ".qco"), "generic_vm",
          <<"cisco_fmc-", "{version}", ".qcow2">>, FALSE, "none"),
    Entry(Pat("c9800_cl_universalk9", "any", ".qco"), "generic_vm",
          <<"cisco_c9800cl-", "{version}", ".qcow2">>, FALSE, "none")
>>

\* the middle of a d_d_d pattern: (\d+)_(\d+)_(\d+)
IsThreeNumbers(mid) ==
    /\ Len(mid) = 5
    /\ mid[1] \in DigitRuns /\ mid[2] = "_" /\ mid[3] \in DigitRuns
    /\ mid[4] = "_" /\ mid[5] \in DigitRuns

\* re.match(pattern, str): not None
ReMatch(pattern, str) ==
    /\ Len(str) >= 2
    /\ str[1] = pattern.prefix
    /\ str[Len(str)] = pattern.ext
    /\ pattern.mid = "d_d_d" => IsThreeNumbers(SubSeq(str, 2, Len(str) - 1))

\* the groups of re.match(pattern, str), for a d_d_d pattern that matches
Groups(str) == <<str[2], str[4], str[6]>>

\* the version_extract lambdas: the three groups as major, minor, patch
VersionExtract(str) ==
    ("{major}" :> <<Groups(str)[1]>>) @@ ("{minor}" :> <<Groups(str)[2]>>)
    @@ ("{patch}" :> <<Groups(str)[3]>>)

\* the version_transform lambdas
VersionTransform(kind, v) ==
    CASE kind = "dots_lower" ->
           IF Contains(v, "_") THEN Lower(UnderscoresToDots(v)) ELSE v
      [] kind = "dots" ->
           IF Contains(v, "_") THEN UnderscoresToDots(v) ELSE v
      [] OTHER -> v

\* str.format(**fields)
RECURSIVE Format(_, _)
Format(template, fields) ==
    IF template = <<>> THEN <<>>
    ELSE (IF Head(template) \in DOMAIN fields
          THEN fields[Head(template)]
          ELSE <<Head(template)>>) \o Format(Tail(template), fields)

(***************************************************************************)
(* match_image_to_platform and should_extract_file.                        *)
(***************************************************************************)
\* the body of the loop without its version_transform branch
BuildMappingUntransformed(i, filename, version_from_folder) ==
    LET platform_config == PLATFORM_PATTERNS[i] IN
    IF platform_config.version_extract
    THEN LET version_parts == VersionExtract(filename) IN
         [platform |-> platform_config.platform,
          rename_to |-> Format(platform_config.rename_format, version_parts),
          version |-> version_parts["{major}"] \o <<".">> \o version_parts["{minor}"]
                      \o <<".">> \o version_parts["{patch}"]]
    ELSE [platform |-> platform_config.platform,
          rename_to |-> Format(platform_config.rename_format,
                               "{version}" :> version_from_folder),
          version |-> version_from_folder]

\* the body of the loop of match_image_to_platform once entry i has matched
BuildMapping(i, filename, version_from_folder) ==
    LET platform_config == PLATFORM_PATTERNS[i] IN
    IF platform_config.version_extract
    THEN LET version_parts == VersionExtract(filename) IN
         [platform |-> platform_config.platform,
          rename_to |-> Format(platform_config.rename_format, version_parts),
          version |-> version_parts["{major}"] \o <<".">> \o version_parts["{minor}"]
                      \o <<".">> \o version_parts["{patch}"]]
    ELSE LET version ==
                 IF platform_config.version_transform # "none"
                 THEN VersionTransform(platform_config.version_transform,
                                       version_from_folder)
                 ELSE version_from_folder
         IN [platform |-> platform_config.platform,
             rename_to |-> Format(platform_config.rename_format,
                                  "{version}" :> version),
             version |-> version]

\* the loop of match_image_to_platform from entry i on
RECURSIVE MatchFrom(_, _, _)
MatchFrom(i, filename, version_from_folder) ==
    IF i > Len(PLATFORM_PATTERNS) THEN None
    ELSE IF ReMatch(PLATFORM_PATTERNS[i].pattern, filename)
         THEN Some(BuildMapping(i, filename, version_from_folder))
         ELSE MatchFrom(i + 1, filename, version_from_folder)

\* the loop without its return: the last entry that matches decides
RECURSIVE MatchLastFrom(_, _, _)
MatchLastFrom(i, filename, version_from_folder) ==
    IF i > Len(PLATFORM_PATTERNS) THEN None
    ELSE LET later == MatchLastFrom(i + 1, filename, version_from_folder) IN
         IF later # None THEN later
         ELSE IF ReMatch(PLATFORM_PATTERNS[i].pattern, filename)
              THEN Some(BuildMapping(i, filename, version_from_folder))
              ELSE None

\* match_image_to_platform with the last match returned
match_image_to_last_platform(image_name, version_from_folder) ==
    MatchLastFrom(1, StripVersionSuffix(image_name), version_from_folder)

match_image_to_platform(image_name, version_from_folder) ==
    MatchFrom(1, StripVersionSuffix(image_name), version_from_folder)

\* should_extract_file without its test of the platform
should_extract_any_platform(filename, supported) ==
    \E i \in DOMAIN PLATFORM_PATTERNS :
        ReMatch(PLATFORM_PATTERNS[i].pattern, Lower(StripVersionSuffix(filename)))

should_extract_file(filename, supported) ==
    LET filename_clean == Lower(StripVersionSuffix(filename)) IN
    \E i \in DOMAIN PLATFORM_PATTERNS :
        /\ PLATFORM_PATTERNS[i].platform \in supported
        /\ ReMatch(PLATFORM_PATTERNS[i].pattern, filename_clean)

(***************************************************************************)
(* The inputs of the model.                                                *)
(***************************************************************************)
SeqsUpTo(S, n) == UNION {[1..k -> S] : k \in 0..n}

\* the symbols of a fallback version string
VerSyms == {"17", "_", "01A", "."}

Versions == SeqsUpTo(VerSyms, MaxVer)

Stems ==
    {PLATFORM_PATTERNS[i].pattern.prefix : i \in DOMAIN PLATFORM_PATTERNS}
    \cup {"ASAV", "CISCO_VISE", "notes"}

Mids == {<<>>, <<"9", "_", "23", "_", "1">>, <<"_x">>}

Exts == {".qcow2", ".qco", ".iol", ".img", ".QCOW2"}

Suffixes == {<<>>, <<";1">>}

\* the file names match_image_to_platform is applied to
MatchNames ==
    {<<s>> \o m \o <<e>> \o x : s \in Stems, m \in Mids, e \in Exts, x \in Suffixes}

\* the supported_platforms sets: vrnetlab/cisco has no directory, some, or all
SupportedChoices ==
    { {"generic_vm"},
      {"generic_vm", "asav", "cat9kv"},
      {"generic_vm"} \cup {PLATFORM_PATTERNS[i].platform : i \in DOMAIN PLATFORM_PATTERNS} }

\* the directory of the base images, as the Joliet and the primary tree name it
DirPattern(joliet) == IF joliet THEN <<"virl-base-images">> ELSE <<"VIRL_BASE_IMAGES">>

\* the directories a walk visits, each the sequence of its components
WalkDirs(joliet) ==
    { <<DirPattern(joliet)>>,
      <<DirPattern(joliet), <<"iosv", "_", "17">>>> }

\* the file names a walk yields
WalkNames ==
    { <<"asav", "9", "_", "23", "_", "1", ".qcow2">>,
      <<"ASAV", "9", "_", "23", "_", "1", ".QCOW2">>,
      <<"Asav", "9", "_", "23", "_", "1", ".Qcow2">>,
      <<"asav", "9", "_", "23", "_", "1", ".qcow2", ";1">>,
      <<"cat9kv", ".qcow2">>,
      <<"cisco_vise", "_x", ".qcow2">>,
      <<"notes", ".img">>,
      <<"c8000v_universalk9", ".qco">> }

\* what iso.get_entry finds for a file: its data_length, or it raises
EntryLengths == [readable : {TRUE}, data_length : 0..MaxLen]
                \cup [readable : {FALSE}, data_length : {0}]

\* a file of the source directory: an .iso that extract_from_iso returns from or
\* raises on; a .zip that opens and unpacks, or that ZipFile or extractall raises
\* on, with for each .iso in it whether extract_from_iso returns; any other file
RefplatFiles ==
    [kind : {"iso"}, fault : {"none", "raises"}, isos : {<<>>}]
    \cup [kind : {"zip"}, fault : {"none", "open", "extractall"},
          isos : SeqsUpTo({"none", "raises"}, MaxZipIsos)]
    \cup [kind : {"other"}, fault : {"none"}, isos : {<<>>}]

\* the names of the refplat directories under the output directory
RefplatDirNames == {<<"refplat-", "20241223", "-fcs">>, <<"images">>}

\* the files of a refplat directory: extracted images, a sidecar, vswitch.xml
BuildNames ==
    {StripVersionSuffix(Lower(n)) : n \in WalkNames}
    \cup {<<"cat9kv", ".version_info">>, <<"vswitch", ".xml">>}

\* the content of an image's .version_info, None when it has none
VersionInfos == {None, Some(<<"iosv", "_", "17">>), Some(<<"cat9kv">>)}

ImageFiles == [name : BuildNames, size : 0..1, version_info : VersionInfos]

\* how make docker-image ends: its output holds 'Successfully tagged', or
\* 'naming to docker.io/', or neither, or it exits with an error
BuildOutcomes == {"tagged", "naming", "unnamed", "failed"}

\* /NODE_DEFINITIONS/CAT9000V_UADP.YAML on the volume: what reading it finds
NodeDefs == {"absent", "undecodable", "no_block", "ok"}

(***************************************************************************)
(* State.                                                                  *)
(***************************************************************************)
VARIABLES
    pc,             \* where the program is
    match_name,     \* match_image_to_platform: image_file.name
    match_version,  \* match_image_to_platform: folder_version
    mapping,        \* the mapping match_image_to_platform returned, or None
    has_entry,      \* pycdlib.rockridge.RockRidge.has_entry: original or patched
    supported_platforms,
    use_joliet,     \* iso.joliet_vd is not None
    node_def,       \* the volume's CAT9000V_UADP.YAML, "unread" until it is first read
    n_walked,       \* the files the first pass has walked
    candidates,     \* the candidates the first pass has offered to extracted_files
    extracted_files,\* the dict, as the sequence of its items in insertion order
    idx,            \* the second pass's position in extracted_files
    disk,           \* file_output_dir: file name -> [content, complete]
    log,            \* the lines printed
    temp_files,     \* the temporary files of extract_vswitch_xml that exist
    folder_version, \* build_vrnetlab_images: the version of the refplat directory
    has_vswitch,    \* the refplat directory holds a vswitch.xml
    image_file,     \* the file the loop of build_vrnetlab_images is at
    n_images,       \* the files the loop has been at
    staged,         \* the files in the platform directories of vrnetlab
    generic_vms,    \* the files in generic_vms
    built_images,
    refplats,       \* extract_images_from_refplats: the files glob("*") yields
    batch_idx,      \* the position of the loop over refplats
    zip_idx,        \* extract_from_zip: the position of the loop over iso_files
    temp_directories, \* _temp_directories
    temp_dirs,      \* the temporary directories that exist
    attempted,      \* the images extract_from_iso was called for: <<file, iso>>
    run_pc,         \* for each run of extract_from_iso, where it is
    original_method,\* for each run, its local original_method
    run_fault,      \* for each run, where its volume makes pycdlib raise
    seen_has_entry  \* for each run, the has_entry methods pycdlib was called with

matchVars == <<match_name, match_version, mapping>>

isoVarsButLog == <<has_entry, supported_platforms, use_joliet, node_def, n_walked,
                   candidates, extracted_files, idx, disk, temp_files>>

isoVars == <<isoVarsButLog, log>>

buildVars == <<folder_version, has_vswitch, image_file, n_images, staged,
               generic_vms, built_images>>

batchVars == <<refplats, batch_idx, zip_idx, temp_directories, temp_dirs, attempted>>

runVars == <<run_pc, original_method, run_fault, seen_has_entry>>

vars == <<pc, matchVars, isoVars, buildVars, batchVars, runVars>>

\* what extract_from_iso leaves alone
notIso == <<matchVars, buildVars, batchVars, runVars>>

MatchIdle == match_name = <<>> /\ match_version = <<>> /\ mapping = None

IsoIdle ==
    /\ has_entry = "original" /\ supported_platforms = {} /\ use_joliet = FALSE
    /\ node_def = "unread" /\ n_walked = 0 /\ candidates = <<>>
    /\ extracted_files = <<>> /\ idx = 0 /\ disk = <<>> /\ log = <<>>
    /\ temp_files = 0

NoFile == [name |-> <<>>, size |-> 0, version_info |-> None]

BuildIdle ==
    /\ folder_version = <<>> /\ has_vswitch = FALSE /\ image_file = NoFile
    /\ n_images = 0 /\ staged = {} /\ generic_vms = {} /\ built_images = <<>>

BatchIdle ==
    /\ refplats = <<>> /\ batch_idx = 0 /\ zip_idx = 0 /\ temp_directories = <<>>
    /\ temp_dirs = {} /\ attempted = {}

Runs == 1..MaxRuns

RunsIdle ==
    /\ run_pc = [r \in Runs |-> "idle"]
    /\ original_method = [r \in Runs |-> "unset"]
    /\ run_fault = [r \in Runs |-> "none"]
    /\ seen_has_entry = [r \in Runs |-> {}]

(***************************************************************************)
(* SpecMatch: match_image_to_platform applied to one file name and one     *)
(* fallback version.                                                       *)
(***************************************************************************)
InitMatch ==
    /\ pc = "call"
    /\ match_name \in MatchNames
    /\ match_version \in Versions
    /\ mapping = None
    /\ IsoIdle
    /\ BuildIdle
    /\ BatchIdle
    /\ RunsIdle

MatchImageToPlatform ==
    /\ pc = "call"
    /\ mapping' = match_image_to_platform(match_name, match_version)
    /\ pc' = "returned"
    /\ UNCHANGED <<match_name, match_version, isoVars, buildVars, batchVars, runVars>>

NextMatch == MatchImageToPlatform

SpecMatch == InitMatch /\ [][NextMatch]_vars

(***************************************************************************)
(* extract_from_iso.                                                       *)
(***************************************************************************)
\* dir_pattern in dirname: the component, followed by a '/'
InBaseImages(dirname, joliet) ==
    \E i \in 1..(Len(dirname) - 1) : dirname[i] = DirPattern(joliet)

\* any(ext in filename.upper() for ext in ['.QCOW2', '.IMG', '.IOL'])
HasImageExtension(filename) ==
    \E i \in DOMAIN filename : Upper(filename)[i] \in {".QCOW2", ".IMG", ".IOL"}

\* the index of key in the dict's items, 0 when it is not a key
IndexOf(files, key) ==
    IF \E i \in DOMAIN files : files[i].key = key
    THEN CHOOSE i \in DOMAIN files : files[i].key = key
    ELSE 0

\* Insert, replacing an entry of equal size too
InsertOnTie(files, key, path, size) ==
    IF \E i \in DOMAIN files : files[i].key = key
    THEN LET i == CHOOSE j \in DOMAIN files : files[j].key = key IN
         IF size >= files[i].size
         THEN [files EXCEPT ![i] = [key |-> key, path |-> path, size |-> size]]
         ELSE files
    ELSE Append(files, [key |-> key, path |-> path, size |-> size])

\* if file_lower not in extracted_files or file_size > ...['size']: ... = {...}
Insert(files, key, path, size) ==
    LET i == IndexOf(files, key)
        item == [key |-> key, path |-> path, size |-> size]
    IN IF i = 0 THEN Append(files, item)
       ELSE IF size > files[i].size THEN [files EXCEPT ![i] = item]
       ELSE files

\* clean_filename
OutputName(key) == StripVersionSuffix(key)

ExtensionSyms == {".qcow2", ".qco", ".iol", ".img"}

\* Path.with_suffix(suffix)
WithSuffix(name, suffix) ==
    IF name # <<>> /\ name[Len(name)] \in ExtensionSyms
    THEN SubSeq(name, 1, Len(name) - 1) \o <<suffix>>
    ELSE name \o <<suffix>>

\* iso_path.split('/')[-2]
IsoFolderName(path) == path.dir[Len(path.dir)]

\* dirname, its components joined by '/'
RECURSIVE JoinPath(_)
JoinPath(dirname) ==
    IF dirname = <<>> THEN <<>>
    ELSE <<"/">> \o Head(dirname) \o JoinPath(Tail(dirname))

\* the bytes of the file at iso_path: dirname + '/' + filename
Payload(path) == <<"data of">> \o JoinPath(path.dir) \o <<"/">> \o path.file

VswitchName == <<"vswitch", ".xml">>

WriteFile(files, name, content, complete) ==
    (name :> [content |-> content, complete |-> complete])
    @@ [n \in (DOMAIN files) \ {name} |-> files[n]]

InitIso ==
    /\ pc = "start"
    /\ has_entry = "original"
    /\ supported_platforms \in SupportedChoices
    /\ use_joliet \in BOOLEAN
    /\ node_def = "unread"
    /\ n_walked = 0
    /\ candidates = <<>>
    /\ extracted_files = <<>>
    /\ idx = 0
    /\ disk = <<>>
    /\ log = <<>>
    /\ temp_files = 0
    /\ MatchIdle
    /\ BuildIdle
    /\ BatchIdle
    /\ RunsIdle

\* patch_rock_ridge_for_multiple_er
PatchRockRidge ==
    /\ pc = "start"
    /\ has_entry' = "patched"
    /\ pc' = "open"
    /\ UNCHANGED <<supported_platforms, use_joliet, node_def, n_walked, candidates,
                   extracted_files, idx, disk, log, temp_files, notIso>>

\* iso.open: it returns, or it raises and the finally clause restores has_entry
OpenIso ==
    /\ pc = "open"
    /\ \E opens \in BOOLEAN :
         IF opens
         THEN pc' = "walk" /\ UNCHANGED has_entry
         ELSE pc' = "raised" /\ has_entry' = "original"
    /\ UNCHANGED <<supported_platforms, use_joliet, node_def, n_walked, candidates,
                   extracted_files, idx, disk, log, temp_files, notIso>>

\* the first pass's filters: the directory, the extension, the platform
IsCandidate(dirname, filename, joliet, supported) ==
    /\ InBaseImages(dirname, joliet)
    /\ HasImageExtension(filename)
    /\ should_extract_file(filename, supported)

\* file_size: entry.data_length, or 0 when iso.get_entry raises
FileSize(e) == IF e.readable THEN e.data_length ELSE 0

\* one file of the first pass: the body of the loop over filelist
FirstPass(dirname, filename, e) ==
    /\ pc = "walk"
    /\ n_walked < MaxWalk
    /\ IF IsCandidate(dirname, filename, use_joliet, supported_platforms)
       THEN extracted_files' =
                Insert(extracted_files, Lower(filename),
                       [dir |-> dirname, file |-> filename], FileSize(e))
       ELSE UNCHANGED extracted_files
    /\ n_walked' = n_walked + 1
    /\ UNCHANGED <<pc, has_entry, supported_platforms, use_joliet, node_def, idx,
                   disk, log, temp_files, notIso>>

WalkFile ==
    /\ \E dirname \in WalkDirs(use_joliet), filename \in WalkNames, e \in EntryLengths :
         FirstPass(dirname, filename, e)
    /\ UNCHANGED candidates

\* WalkFile, with the candidates it offers to the dict recorded in walk order; a
\* walk yields each path once
WalkFileObserved ==
    \E dirname \in WalkDirs(use_joliet), filename \in WalkNames, e \in EntryLengths :
       LET iso_path == [dir |-> dirname, file |-> filename] IN
       /\ \A i \in DOMAIN candidates : candidates[i].path # iso_path
       /\ FirstPass(dirname, filename, e)
       /\ candidates' =
            IF IsCandidate(dirname, filename, use_joliet, supported_platforms)
            THEN Append(candidates, [key |-> Lower(filename), path |-> iso_path,
                                     size |-> FileSize(e)])
            ELSE candidates

\* the walk is over
EndWalk ==
    /\ pc = "walk"
    /\ pc' = "extract"
    /\ idx' = 1
    /\ UNCHANGED <<has_entry, supported_platforms, use_joliet, node_def, n_walked,
                   candidates, extracted_files, disk, log, temp_files, notIso>>

\* SkipZero with the test of the size after the sidecar is written
SkipZeroAfterSidecar ==
    /\ pc = "extract"
    /\ idx <= Len(extracted_files)
    /\ extracted_files[idx].size = 0
    /\ disk' = WriteFile(disk,
                         WithSuffix(OutputName(extracted_files[idx].key), ".version_info"),
                         IsoFolderName(extracted_files[idx].path), TRUE)
    /\ idx' = idx + 1
    /\ UNCHANGED <<pc, has_entry, supported_platforms, use_joliet, node_def, n_walked,
                   candidates, extracted_files, log, temp_files, notIso>>

\* second pass, a candidate of zero size: printed, skipped
SkipZero ==
    /\ pc = "extract"
    /\ idx <= Len(extracted_files)
    /\ extracted_files[idx].size = 0
    /\ log' = log \o << <<"Extracting">> \o extracted_files[idx].key,
                        <<"Skipping">> \o extracted_files[idx].key >>
    /\ idx' = idx + 1
    /\ UNCHANGED <<pc, has_entry, supported_platforms, use_joliet, node_def, n_walked,
                   candidates, extracted_files, disk, temp_files, notIso>>

\* second pass: iso.get_file_from_iso opens the output file and starts to write
BeginExtract ==
    /\ pc = "extract"
    /\ idx <= Len(extracted_files)
    /\ extracted_files[idx].size # 0
    /\ log' = Append(log, <<"Extracting">> \o extracted_files[idx].key)
    /\ disk' = WriteFile(disk, OutputName(extracted_files[idx].key), <<>>, FALSE)
    /\ pc' = "writing"
    /\ UNCHANGED <<has_entry, supported_platforms, use_joliet, node_def, n_walked,
                   candidates, extracted_files, idx, temp_files, notIso>>

\* iso.get_file_from_iso returns: the payload is written
FinishWrite ==
    /\ pc = "writing"
    /\ disk' = WriteFile(disk, OutputName(extracted_files[idx].key),
                         Payload(extracted_files[idx].path), TRUE)
    /\ pc' = "sidecar"
    /\ UNCHANGED <<has_entry, supported_platforms, use_joliet, node_def, n_walked,
                   candidates, extracted_files, idx, log, temp_files, notIso>>

\* iso.get_file_from_iso raises: nothing in the loop catches it
FailWrite ==
    /\ pc = "writing"
    /\ pc' = "raised"
    /\ has_entry' = "original"
    /\ UNCHANGED <<supported_platforms, use_joliet, node_def, n_walked, candidates,
                   extracted_files, idx, disk, log, temp_files, notIso>>

\* the .version_info file is written
WriteSidecar ==
    /\ pc = "sidecar"
    /\ disk' = WriteFile(disk,
                         WithSuffix(OutputName(extracted_files[idx].key), ".version_info"),
                         IsoFolderName(extracted_files[idx].path), TRUE)
    /\ IF Contains(extracted_files[idx].key, "cat9kv")
       THEN pc' = "vswitch" /\ UNCHANGED idx
       ELSE pc' = "extract" /\ idx' = idx + 1
    /\ UNCHANGED <<has_entry, supported_platforms, use_joliet, node_def, n_walked,
                   candidates, extracted_files, log, temp_files, notIso>>

\* open(version_info_file, 'w') raises: nothing in the loop catches it
FailSidecar ==
    /\ pc = "sidecar"
    /\ pc' = "raised"
    /\ has_entry' = "original"
    /\ UNCHANGED <<supported_platforms, use_joliet, node_def, n_walked, candidates,
                   extracted_files, idx, disk, log, temp_files, notIso>>

\* extract_vswitch_xml, the node definition being found as found
VswitchXml(found) ==
    CASE found \in {"absent", "undecodable"} ->
           \* get_file_from_iso or f.read raises before os.unlink
           /\ temp_files' = temp_files + 1
           /\ log' = Append(log, <<"Warning: Could not extract vswitch.xml">>)
           /\ UNCHANGED disk
      [] found = "no_block" ->
           \* vswitch_match is None: the function falls through
           /\ UNCHANGED <<temp_files, log, disk>>
      [] found = "ok" ->
           \E written \in BOOLEAN :
              IF written
              THEN /\ disk' = WriteFile(disk, VswitchName, <<"vswitch_xml">>, TRUE)
                   /\ log' = Append(log, <<"Extracted vswitch.xml">>)
                   /\ UNCHANGED temp_files
              ELSE /\ log' = Append(log, <<"Warning: Could not extract vswitch.xml">>)
                   /\ UNCHANGED <<temp_files, disk>>

\* the call of extract_vswitch_xml for a cat9kv candidate
ExtractVswitchXml ==
    /\ pc = "vswitch"
    /\ \E found \in (IF node_def = "unread" THEN NodeDefs ELSE {node_def}) :
         /\ node_def' = found
         /\ VswitchXml(found)
    /\ pc' = "extract"
    /\ idx' = idx + 1
    /\ UNCHANGED <<has_entry, supported_platforms, use_joliet, n_walked,
                   candidates, extracted_files, notIso>>

\* iso.close() and the finally clause
CloseIso ==
    /\ pc = "extract"
    /\ idx > Len(extracted_files)
    /\ pc' = "done"
    /\ has_entry' = "original"
    /\ UNCHANGED <<supported_platforms, use_joliet, node_def, n_walked, candidates,
                   extracted_files, idx, disk, log, temp_files, notIso>>

\* SIGINT or SIGTERM: _signal_handler calls sys.exit(1); the finally clause runs
Interrupt ==
    /\ pc \in {"open", "walk", "extract", "writing", "sidecar", "vswitch"}
    /\ pc' = "exited"
    /\ has_entry' = "original"
    /\ UNCHANGED <<supported_platforms, use_joliet, node_def, n_walked, candidates,
                   extracted_files, idx, disk, log, temp_files, notIso>>

NextIso ==
    \/ PatchRockRidge \/ OpenIso \/ WalkFile \/ EndWalk
    \/ SkipZero \/ BeginExtract \/ FinishWrite \/ FailWrite
    \/ WriteSidecar \/ FailSidecar \/ ExtractVswitchXml \/ CloseIso
    \/ Interrupt

SpecIso == InitIso /\ [][NextIso]_vars

(***************************************************************************)
(* SpecWalk: the first pass of extract_from_iso, the candidates recorded.  *)
(***************************************************************************)
InitWalk == InitIso

NextWalk == PatchRockRidge \/ OpenIso \/ WalkFileObserved \/ EndWalk

SpecWalk == InitWalk /\ [][NextWalk]_vars

(***************************************************************************)
(* Properties of extract_from_iso.                                         *)
(***************************************************************************)
\* the candidate the dict is to hold for key: the largest, the first of the largest
Largest(key) ==
    CHOOSE i \in DOMAIN candidates :
        /\ candidates[i].key = key
        /\ \A j \in DOMAIN candidates :
              candidates[j].key = key =>
                 \/ candidates[j].size < candidates[i].size
                 \/ candidates[j].size = candidates[i].size /\ i <= j

\* C1: at every point of the first pass the dict holds, for every key offered so
\* far, exactly one entry, and it is the candidate of the greatest size with that
\* key, the first one in walk order among those of the greatest size.
C1_LargestCandidateKept ==
    /\ \A i \in DOMAIN candidates :
          \E j \in DOMAIN extracted_files : extracted_files[j].key = candidates[i].key
    /\ \A j, k \in DOMAIN extracted_files :
          extracted_files[j].key = extracted_files[k].key => j = k
    /\ \A j \in DOMAIN extracted_files :
          /\ \E i \in DOMAIN candidates : candidates[i].key = extracted_files[j].key
          /\ extracted_files[j] = candidates[Largest(extracted_files[j].key)]

\* a walk has ended that offered two candidates of one key and one size
C1_Witness ==
    /\ pc = "extract"
    /\ Len(candidates) = 2
    /\ candidates[1].path # candidates[2].path
    /\ candidates[1].key = candidates[2].key
    /\ candidates[1].size = candidates[2].size
    /\ candidates[1].size > 0
    /\ extracted_files = <<candidates[1]>>

\* C2: the step of the second pass at a candidate of recorded size zero writes no
\* file, neither the image nor its .version_info, and goes on to the next candidate.
C2_ZeroSizeWritesNothing ==
    [][ ( /\ pc = "extract"
          /\ idx <= Len(extracted_files)
          /\ extracted_files[idx].size = 0
          /\ pc' # "exited" )
        => (disk' = disk /\ pc' = "extract" /\ idx' = idx + 1) ]_vars

\* the second pass has ended: it skipped the empty first candidate, which left
\* no file, and wrote the second
C2_Witness ==
    /\ pc = "done"
    /\ Len(extracted_files) = 2
    /\ extracted_files[1].size = 0
    /\ extracted_files[2].size > 0
    /\ WithSuffix(OutputName(extracted_files[1].key), ".version_info") \notin DOMAIN disk
    /\ OutputName(extracted_files[1].key) \notin DOMAIN disk
    /\ OutputName(extracted_files[2].key) \in DOMAIN disk

\* candidate i of the second pass was attempted
Attempted(i) ==
    \E n \in DOMAIN log : log[n] = <<"Extracting">> \o extracted_files[i].key

\* C3: when the run of a volume has ended, by return or by a failure on one
\* candidate, every candidate of the volume was attempted.
C3_FailureDoesNotStopVolume ==
    pc \in {"done", "raised"} => \A i \in DOMAIN extracted_files : Attempted(i)

MatchesSupported(filename) ==
    LET clean == Lower(StripVersionSuffix(filename)) IN
    \E i \in DOMAIN PLATFORM_PATTERNS :
        /\ PLATFORM_PATTERNS[i].platform \in supported_platforms
        /\ ReMatch(PLATFORM_PATTERNS[i].pattern, clean)

\* C9: every entry of the dict, and every image and .version_info on the disk,
\* is of a file whose name matches an entry of a supported platform.
C9_OnlySupportedExtracted ==
    /\ \A i \in DOMAIN extracted_files : MatchesSupported(extracted_files[i].path.file)
    /\ \A f \in DOMAIN disk :
          \/ f = VswitchName
          \/ \E n \in WalkNames :
                /\ f \in {OutputName(Lower(n)),
                          WithSuffix(OutputName(Lower(n)), ".version_info")}
                /\ MatchesSupported(n)

\* with generic_vm alone supported, two files were walked, one was discarded or
\* merged, and the ISE image, which matches a generic_vm entry, was extracted
C9_Witness ==
    /\ pc = "done"
    /\ supported_platforms = {"generic_vm"}
    /\ n_walked = 2
    /\ Len(extracted_files) = 1
    /\ <<"cisco_vise", "_x", ".qcow2">> \in DOMAIN disk
    /\ disk[<<"cisco_vise", "_x", ".qcow2">>].complete

\* C10: a call of extract_vswitch_xml that cannot obtain the payload returns to
\* the loop, prints a warning, and changes no file.
C10_VswitchMissLogged ==
    [][ (pc = "vswitch" /\ pc' = "extract" /\ node_def' # "ok")
        => /\ log' = Append(log, <<"Warning: Could not extract vswitch.xml">>)
           /\ disk' = disk
           /\ idx' = idx + 1 ]_vars

(***************************************************************************)
(* build_vrnetlab_images.                                                  *)
(***************************************************************************)
NotRefplatPrefix(s) == s # "refplat-"

\* the strings the version_patterns of extract_version_from_folder match
VersionPatterns == << {"20241223"}, {"2.8.1"}, {"2.8"} >>

\* re.search over version_patterns from pattern k on, else clean_name
RECURSIVE SearchVersion(_, _)
SearchVersion(k, clean_name) ==
    IF k > Len(VersionPatterns) THEN clean_name
    ELSE IF \E i \in DOMAIN clean_name : clean_name[i] \in VersionPatterns[k]
         THEN LET i == CHOOSE j \in DOMAIN clean_name :
                          /\ clean_name[j] \in VersionPatterns[k]
                          /\ \A h \in 1..(j - 1) : clean_name[h] \notin VersionPatterns[k]
              IN <<clean_name[i]>>
         ELSE SearchVersion(k + 1, clean_name)

extract_version_from_folder(folder_name) ==
    SearchVersion(1, SelectSeq(folder_name, NotRefplatPrefix))

\* '_'.join(iso_folder_name.split('_')[1:])
AfterFirstUnderscore(str) ==
    LET k == CHOOSE i \in DOMAIN str :
                 str[i] = "_" /\ \A h \in 1..(i - 1) : str[h] # "_"
    IN SubSeq(str, k + 1, Len(str))

\* version_from_folder, lines 449-460
VersionFromFolder(file, version) ==
    IF file.version_info # None /\ Contains(file.version_info[1], "_")
    THEN AfterFirstUnderscore(file.version_info[1])
    ELSE version

\* image_file.suffix == '.version_info' or image_file.name.endswith('.yaml')
IsNotAnImage(name) == name[Len(name)] \in {".version_info", ".yaml"}

\* platform_dir.exists()
PlatformDirExists(platform) ==
    platform \in supported_platforms /\ platform # "generic_vm"

InitBuild ==
    /\ pc = "dirs"
    /\ supported_platforms \in SupportedChoices
    /\ has_entry = "original" /\ use_joliet = FALSE /\ node_def = "unread"
    /\ n_walked = 0 /\ candidates = <<>> /\ extracted_files = <<>> /\ idx = 0
    /\ disk = <<>> /\ log = <<>> /\ temp_files = 0
    /\ MatchIdle
    /\ BuildIdle
    /\ BatchIdle
    /\ RunsIdle

\* the outer loop enters a refplat directory
EnterRefplatDir ==
    /\ pc = "dirs"
    /\ \E refplat_dir \in RefplatDirNames, vswitch \in BOOLEAN :
         /\ folder_version' = extract_version_from_folder(refplat_dir)
         /\ has_vswitch' = vswitch
    /\ pc' = "next"
    /\ UNCHANGED <<image_file, n_images, staged, generic_vms, built_images, mapping,
                   match_name, match_version, isoVars, batchVars, runVars>>

\* the inner loop has no file left
LeaveRefplatDir ==
    /\ pc = "next"
    /\ pc' = "dirs"
    /\ UNCHANGED <<buildVars, matchVars, isoVars, batchVars, runVars>>

\* the inner loop at file: from line 437 to the next file, or to the build command
StageImage(file) ==
    /\ pc = "next"
    /\ n_images < MaxImages
    /\ image_file' = file
    /\ n_images' = n_images + 1
    /\ IF IsNotAnImage(file.name)
       THEN UNCHANGED <<pc, mapping, staged, generic_vms, log>>
       ELSE IF file.size = 0
       THEN /\ log' = Append(log, <<"Skipping">> \o file.name)
            /\ UNCHANGED <<pc, mapping, staged, generic_vms>>
       ELSE LET m == match_image_to_platform(file.name,
                                             VersionFromFolder(file, folder_version))
            IN /\ mapping' = m
               /\ IF m = None
                  THEN UNCHANGED <<pc, staged, generic_vms, log>>
                  ELSE IF m[1].platform = "generic_vm"
                  THEN /\ generic_vms' = generic_vms \cup {m[1].rename_to}
                       /\ UNCHANGED <<pc, staged, log>>
                  ELSE IF ~PlatformDirExists(m[1].platform)
                  THEN UNCHANGED <<pc, staged, generic_vms, log>>
                  ELSE /\ staged' = staged \cup {<<m[1].platform, m[1].rename_to>>}
                            \cup (IF m[1].platform = "cat9kv" /\ has_vswitch
                                  THEN {<<"cat9kv", VswitchName>>} ELSE {})
                       /\ pc' = "build"
                       /\ UNCHANGED <<generic_vms, log>>
    /\ UNCHANGED <<folder_version, has_vswitch, built_images, match_name,
                   match_version, isoVarsButLog, batchVars, runVars>>

NextImage == \E file \in ImageFiles : StageImage(file)

\* RunBuild with the staged files removed whatever the outcome
RunBuildAlwaysCleans(outcome) ==
    LET m == mapping[1] IN
    /\ pc = "build"
    /\ IF outcome = "failed"
       THEN /\ log' = Append(log, <<"Build failed">>)
            /\ UNCHANGED built_images
       ELSE /\ log' = Append(log, <<"Built">>)
            /\ built_images' = Append(built_images, <<"named by docker">>)
    /\ staged' = staged \ {<<m.platform, m.rename_to>>}
    /\ pc' = "next"
    /\ UNCHANGED <<folder_version, has_vswitch, image_file, n_images, generic_vms,
                   matchVars, isoVarsButLog, batchVars, runVars>>

\* make docker-image and what follows it, lines 504-545
RunBuild(outcome) ==
    LET m == mapping[1] IN
    /\ pc = "build"
    /\ IF outcome = "failed"
       THEN /\ log' = Append(log, <<"Build failed">>)
            /\ UNCHANGED <<built_images, staged>>
       ELSE /\ built_images' = Append(built_images,
                 CASE outcome = "tagged" -> <<"the last word of the tagged line">>
                   [] outcome = "naming" -> <<"the name after docker.io/">>
                   [] OTHER -> <<"vrnetlab/cisco_", m.platform, ":">> \o m.version)
            /\ log' = Append(log, <<"Built">>)
            /\ staged' = (staged \ {<<m.platform, m.rename_to>>})
                         \ (IF m.platform = "cat9kv"
                            THEN {<<"cat9kv", VswitchName>>} ELSE {})
    /\ pc' = "next"
    /\ UNCHANGED <<folder_version, has_vswitch, image_file, n_images, generic_vms,
                   matchVars, isoVarsButLog, batchVars, runVars>>

Build == \E outcome \in BuildOutcomes : RunBuild(outcome)

\* the outer loop has no directory left: built_images is returned
ReturnBuilt ==
    /\ pc = "dirs"
    /\ pc' = "done"
    /\ UNCHANGED <<buildVars, matchVars, isoVars, batchVars, runVars>>

NextBuild == EnterRefplatDir \/ LeaveRefplatDir \/ NextImage \/ Build \/ ReturnBuilt

SpecBuild == InitBuild /\ [][NextBuild]_vars

(***************************************************************************)
(* Properties of match_image_to_platform and build_vrnetlab_images.        *)
(***************************************************************************)
Matches(filename) ==
    {i \in DOMAIN PLATFORM_PATTERNS : ReMatch(PLATFORM_PATTERNS[i].pattern, filename)}

\* the first entry of the table whose regex matches
FirstMatching(filename) ==
    CHOOSE i \in Matches(filename) : \A j \in Matches(filename) : i <= j

\* C5: for every file the loop of build_vrnetlab_images matches, the mapping is
\* that of the first entry of PLATFORM_PATTERNS whose regex matches the name with
\* ';1' stripped, whatever later entries match; when none matches there is no
\* mapping, nothing is copied, staged or built for the file, and the loop goes on.
C5_FirstMatchWins ==
    [][ ( /\ pc = "next"
          /\ n_images' = n_images + 1
          /\ ~IsNotAnImage(image_file'.name)
          /\ image_file'.size # 0 )
        => LET filename == StripVersionSuffix(image_file'.name) IN
           IF Matches(filename) = {}
           THEN /\ mapping' = None
                /\ staged' = staged
                /\ generic_vms' = generic_vms
                /\ built_images' = built_images
                /\ pc' = "next"
           ELSE LET first == PLATFORM_PATTERNS[FirstMatching(filename)] IN
                /\ mapping' # None
                /\ mapping'[1].platform = first.platform
                /\ Head(mapping'[1].rename_to) = Head(first.rename_format) ]_vars

\* an ISE image, which two entries match, was mapped to ise
C5_Witness ==
    /\ image_file.name = <<"cisco_vise", "_x", ".qcow2">>
    /\ image_file.size # 0
    /\ Cardinality(Matches(image_file.name)) = 2
    /\ mapping # None
    /\ mapping[1].platform = "ise"
    /\ mapping[1].rename_to[1] = "cisco-ise-"

\* C6: the version of a mapping comes from the groups of the file name when the
\* matching entry has a version_extract, and then no fallback changes the mapping;
\* else it is the entry's version_transform of the fallback when it has one; else
\* it is the fallback; and rename_to is rename_format filled with that version.
C6_VersionPrecedence ==
    (pc = "returned" /\ mapping # None) =>
        LET filename == StripVersionSuffix(match_name)
            entry == PLATFORM_PATTERNS[FirstMatching(filename)]
            m == mapping[1]
        IN IF entry.version_extract
           THEN /\ m.version = <<filename[2], ".", filename[4], ".", filename[6]>>
                /\ m.rename_to =
                     Format(entry.rename_format,
                            ("{major}" :> <<filename[2]>>) @@ ("{minor}" :> <<filename[4]>>)
                            @@ ("{patch}" :> <<filename[6]>>))
                /\ \A v \in Versions :
                     match_image_to_platform(match_name, v) = mapping
           ELSE /\ m.version =
                     IF entry.version_transform # "none"
                     THEN VersionTransform(entry.version_transform, match_version)
                     ELSE match_version
                /\ m.rename_to = Format(entry.rename_format, "{version}" :> m.version)

\* a c8000v image was mapped with a fallback its transform changes
C6_Witness ==
    /\ pc = "returned"
    /\ mapping # None
    /\ mapping[1].platform = "c8000v"
    /\ match_version = <<"17", "_", "01A">>
    /\ mapping[1].version = <<"17", ".", "01a">>
    /\ mapping[1].rename_to = <<"c8000v-", "17", ".", "01a", ".qcow2">>

\* C8: when the build command is about to run, the renamed image is in the
\* platform's build directory; after a build that succeeded it is no longer
\* there, after a build that failed it still is, and the loop goes on either way.
C8_StagedForBuild ==
    [][ /\ pc' = "build" =>
              /\ mapping' # None
              /\ PlatformDirExists(mapping'[1].platform)
              /\ <<mapping'[1].platform, mapping'[1].rename_to>> \in staged'
        /\ pc = "build" =>
              /\ pc' = "next"
              /\ \/ /\ log' = Append(log, <<"Built">>)
                    /\ <<mapping[1].platform, mapping[1].rename_to>> \notin staged'
                 \/ /\ log' = Append(log, <<"Build failed">>)
                    /\ <<mapping[1].platform, mapping[1].rename_to>> \in staged'
                    /\ staged' = staged ]_vars

\* a build failed and left its image staged, the next one succeeded and did not
C8_Witness ==
    /\ pc = "next"
    /\ log = << <<"Build failed">>, <<"Built">> >>
    /\ Cardinality(staged) = 1
    /\ \A t \in staged : t # <<mapping[1].platform, mapping[1].rename_to>>

(***************************************************************************)
(* extract_images_from_refplats and extract_from_zip.  extract_from_iso is *)
(* here one step: it returns, or it raises (iso.open, or a write of the    *)
(* second pass, see OpenIso, FailWrite and FailSidecar).                   *)
(***************************************************************************)
InitBatch ==
    /\ pc = "glob"
    /\ refplats \in SeqsUpTo(RefplatFiles, MaxBatch)
    /\ batch_idx = 1
    /\ zip_idx = 0
    /\ temp_directories = <<>>
    /\ temp_dirs = {}
    /\ attempted = {}
    /\ MatchIdle
    /\ IsoIdle
    /\ BuildIdle
    /\ RunsIdle

\* a file that is neither .zip nor .iso
SkipOther ==
    /\ pc = "glob"
    /\ batch_idx <= Len(refplats)
    /\ refplats[batch_idx].kind = "other"
    /\ batch_idx' = batch_idx + 1
    /\ UNCHANGED <<pc, refplats, zip_idx, temp_directories, temp_dirs, attempted,
                   matchVars, isoVars, buildVars, runVars>>

\* line 83: extract_from_iso on an .iso of the source directory; what it raises
\* leaves the loop and reaches main, which prints it and exits
ExtractStandaloneIso ==
    /\ pc = "glob"
    /\ batch_idx <= Len(refplats)
    /\ refplats[batch_idx].kind = "iso"
    /\ attempted' = attempted \cup {<<batch_idx, 0>>}
    /\ IF refplats[batch_idx].fault = "raises"
       THEN pc' = "failed" /\ UNCHANGED batch_idx
       ELSE pc' = "glob" /\ batch_idx' = batch_idx + 1
    /\ UNCHANGED <<refplats, zip_idx, temp_directories, temp_dirs,
                   matchVars, isoVars, buildVars, runVars>>

\* extract_from_zip up to the loop over iso_files, lines 86-97
OpenZip ==
    /\ pc = "glob"
    /\ batch_idx <= Len(refplats)
    /\ refplats[batch_idx].kind = "zip"
    /\ CASE refplats[batch_idx].fault = "open" ->
              \* zipfile.ZipFile raises
              /\ pc' = "failed"
              /\ UNCHANGED <<zip_idx, temp_directories, temp_dirs>>
         [] refplats[batch_idx].fault = "extractall" ->
              \* printed and raised again: the with statement removes the
              \* directory, lines 110-111 are not reached
              /\ pc' = "failed"
              /\ temp_directories' = Append(temp_directories, batch_idx)
              /\ UNCHANGED <<zip_idx, temp_dirs>>
         [] OTHER ->
              /\ pc' = "zip"
              /\ zip_idx' = 1
              /\ temp_directories' = Append(temp_directories, batch_idx)
              /\ temp_dirs' = temp_dirs \cup {batch_idx}
    /\ UNCHANGED <<refplats, batch_idx, attempted, matchVars, isoVars, buildVars, runVars>>

\* lines 99-103: extract_from_iso on an .iso of the archive, what it raises caught
ExtractZipIso ==
    /\ pc = "zip"
    /\ zip_idx <= Len(refplats[batch_idx].isos)
    /\ attempted' = attempted \cup {<<batch_idx, zip_idx>>}
    /\ zip_idx' = zip_idx + 1
    /\ UNCHANGED <<pc, refplats, batch_idx, temp_directories, temp_dirs,
                   matchVars, isoVars, buildVars, runVars>>

\* the with statements end, lines 109-111
IsNotThisDir(d) == d # batch_idx

CloseZip ==
    /\ pc = "zip"
    /\ zip_idx > Len(refplats[batch_idx].isos)
    /\ temp_dirs' = temp_dirs \ {batch_idx}
    /\ temp_directories' = SelectSeq(temp_directories, IsNotThisDir)
    /\ batch_idx' = batch_idx + 1
    /\ pc' = "glob"
    /\ UNCHANGED <<refplats, zip_idx, attempted, matchVars, isoVars, buildVars, runVars>>

\* the loop over refplats ends
ReturnFromBatch ==
    /\ pc = "glob"
    /\ batch_idx > Len(refplats)
    /\ pc' = "done"
    /\ UNCHANGED <<batchVars, matchVars, isoVars, buildVars, runVars>>

NextBatch ==
    \/ SkipOther \/ ExtractStandaloneIso \/ OpenZip \/ ExtractZipIso \/ CloseZip
    \/ ReturnFromBatch

SpecBatch == InitBatch /\ [][NextBatch]_vars

\* the images of the batch: the .iso files, and the .iso files of the archives
\* that unpack
Images ==
    {<<i, 0>> : i \in {k \in DOMAIN refplats : refplats[k].kind = "iso"}}
    \cup UNION { {<<i, j>> : j \in DOMAIN refplats[i].isos} :
                 i \in {k \in DOMAIN refplats :
                          refplats[k].kind = "zip" /\ refplats[k].fault = "none"} }

\* C4: when the run over a batch has ended, extract_from_iso was called for every
\* image of the batch, whichever images failed.
C4_BatchContinues ==
    pc \in {"done", "failed"} => \A image \in Images : image \in attempted

(***************************************************************************)
(* SpecRuns: MaxRuns runs of extract_from_iso on different volumes, their  *)
(* steps interleaved in any order.  RockRidge.has_entry is an attribute of *)
(* a class of pycdlib, one for the process.                                *)
(***************************************************************************)
\* where a volume makes pycdlib raise: nowhere, at iso.open, or after it
RunFaults == {"none", "open", "work"}

InitRuns ==
    /\ pc = "runs"
    /\ run_pc = [r \in Runs |-> "start"]
    /\ original_method = [r \in Runs |-> "unset"]
    /\ run_fault \in [Runs -> RunFaults]
    /\ seen_has_entry = [r \in Runs |-> {}]
    /\ MatchIdle
    /\ IsoIdle
    /\ BuildIdle
    /\ BatchIdle

notRuns == <<pc, matchVars, isoVarsButLog, log, buildVars, batchVars>>

notHasEntry == <<pc, matchVars, supported_platforms, use_joliet, node_def, n_walked,
                 candidates, extracted_files, idx, disk, temp_files, log, buildVars,
                 batchVars>>

\* patch_rock_ridge_for_multiple_er reads the attribute into original_has_entry
SaveOriginal(r) ==
    /\ run_pc[r] = "start"
    /\ original_method' = [original_method EXCEPT ![r] = has_entry]
    /\ run_pc' = [run_pc EXCEPT ![r] = "saved"]
    /\ UNCHANGED <<run_fault, seen_has_entry, notRuns>>

\* and assigns patched_has_entry to it
ApplyPatch(r) ==
    /\ run_pc[r] = "saved"
    /\ has_entry' = "patched"
    /\ run_pc' = [run_pc EXCEPT ![r] = "open"]
    /\ UNCHANGED <<original_method, run_fault, seen_has_entry, notHasEntry>>

\* iso.open parses the volume with the has_entry of that moment, or raises
OpenVolume(r) ==
    /\ run_pc[r] = "open"
    /\ seen_has_entry' = [seen_has_entry EXCEPT ![r] = @ \cup {has_entry}]
    /\ run_pc' = [run_pc EXCEPT ![r] =
                     IF run_fault[r] = "open" THEN "raising" ELSE "work"]
    /\ UNCHANGED <<original_method, run_fault, notRuns>>

\* the two passes and iso.close: they end, or an exception leaves them
WorkOnVolume(r) ==
    /\ run_pc[r] = "work"
    /\ run_pc' = [run_pc EXCEPT ![r] =
                     IF run_fault[r] = "work" THEN "raising" ELSE "returning"]
    /\ UNCHANGED <<original_method, run_fault, seen_has_entry, notRuns>>

\* the finally clause: restore_rock_ridge_method(original_method)
RestoreMethod(r) ==
    /\ run_pc[r] \in {"returning", "raising"}
    /\ has_entry' = original_method[r]
    /\ run_pc' = [run_pc EXCEPT ![r] =
                     IF run_pc[r] = "raising" THEN "raised" ELSE "returned"]
    /\ UNCHANGED <<original_method, run_fault, seen_has_entry, notHasEntry>>

NextRuns ==
    \E r \in Runs :
        \/ SaveOriginal(r)
        \/ ApplyPatch(r)
        \/ OpenVolume(r)
        \/ WorkOnVolume(r)
        \/ RestoreMethod(r)

SpecRuns == InitRuns /\ [][NextRuns]_vars

\* run r is between its patch and its restore
InRun(r) == run_pc[r] \in {"open", "work", "returning", "raising"}

\* C11: while a run is between its patch and its restore the relaxation is in
\* force, pycdlib parsed every volume with the patched method, and once every
\* run has returned or raised, has_entry is the original method again.
C11_RunsShareNoState ==
    /\ \A r \in Runs : InRun(r) => has_entry = "patched"
    /\ \A r \in Runs : seen_has_entry[r] \subseteq {"patched"}
    /\ (\A r \in Runs : run_pc[r] \in {"returned", "raised"})
          => has_entry = "original"

(***************************************************************************)
(* SpecCleanup: the transient workspaces.  A behaviour is the loop of      *)
(* extract_images_from_refplats with its calls of extract_from_zip, or one *)
(* run of extract_from_iso with its calls of extract_vswitch_xml; a signal *)
(* may arrive at any step of either.                                       *)
(***************************************************************************)
InitCleanup == InitBatch \/ InitIso

\* the registered directories that exist
RegisteredAndExisting == {d \in temp_dirs : \E n \in DOMAIN temp_directories :
                                              temp_directories[n] = d}

IsNotRemoved(d) == d \notin RegisteredAndExisting

\* SIGINT or SIGTERM in the loop over refplats: _signal_handler runs
\* _cleanup_temp_directories, shutil.rmtree succeeding, and calls sys.exit(1)
InterruptBatch ==
    /\ pc \in {"glob", "zip"}
    /\ temp_dirs' = temp_dirs \ RegisteredAndExisting
    /\ temp_directories' = SelectSeq(temp_directories, IsNotRemoved)
    /\ pc' = "exited"
    /\ UNCHANGED <<refplats, batch_idx, zip_idx, attempted, matchVars, isoVars,
                   buildVars, runVars>>

NextCleanup == NextBatch \/ InterruptBatch \/ NextIso

SpecCleanup == InitCleanup /\ [][NextCleanup]_vars

\* C12: no temporary file of extract_vswitch_xml is left by a call that has
\* ended, and outside a call of extract_from_zip no temporary directory exists
\* and _temp_directories lists none, however the call ended.
C12_WorkspacesReleased ==
    /\ temp_files = 0
    /\ pc # "zip" => temp_dirs = {} /\ temp_directories = <<>>

(***************************************************************************)
(* The filter of the extraction and the matcher of the build.              *)
(***************************************************************************)
\* C13: an image that should_extract_file accepts for the supported platforms
\* is, when the loop of build_vrnetlab_images reads it, mapped to a platform
\* of that set, and copied to generic_vms or staged for a build.
C13_FilterAndMatcherAgree ==
    [][ ( /\ pc = "next"
          /\ n_images' = n_images + 1
          /\ ~IsNotAnImage(image_file'.name)
          /\ image_file'.size > 0
          /\ should_extract_file(image_file'.name, supported_platforms) )
        => /\ mapping' # None
           /\ mapping'[1].platform \in supported_platforms
           /\ \/ /\ mapping'[1].platform = "generic_vm"
                 /\ mapping'[1].rename_to \in generic_vms'
              \/ /\ pc' = "build"
                 /\ <<mapping'[1].platform, mapping'[1].rename_to>> \in staged' ]_vars

====
